---- MODULE Spec2Model ----
(***************************************************************************)
(* Model of the grocery data store (src/database/Database.ts) and of the   *)
(* list screens that drive it (src/app/(tabs)/list.tsx, src/unnamed/       *)
(* part_000).                                                              *)
(*                                                                         *)
(* The SQLite engine is serial: a statement handed to it runs before any   *)
(* statement handed to it later, so a statement's effect is taken at the   *)
(* step that issues it.  What stays asynchronous is init(): the handle is  *)
(* published when openDatabaseAsync resolves, and the promise of init()    *)
(* settles in a later step.  Whether a later openDatabaseAsync hands out   *)
(* a connection already open or a new one is the engine's choice; results  *)
(* are delivered to the screens in any order.                              *)
(* Text values are sequences of characters so that trim() is computed and  *)
(* not assumed.                                                            *)
(***************************************************************************)
EXTENDS Integers, Sequences, FiniteSets

\* ------------------------------------------------------------------ bounds
MaxInits == 2   \* init() calls per behaviour
MaxLists == 2   \* largest id of table lists
MaxItems == 2   \* largest id of table items
MaxPending == 2 \* handler continuations waiting behind an await

\* --------------------------------------------------------------- constants
Null == 0                                   \* this.db = null
Handles == 1..MaxInits                      \* the k-th init() opens handle k
Names == {<<"a">>, <<" ", "b">>}            \* addList arguments
Texts == {<<"m", " ">>}                     \* addItem arguments
ListIdArgs == 1..(MaxLists + 1)             \* listId arguments, one names no list
ItemIdArgs == 1..(MaxItems + 1)             \* item id arguments, one names no item

NotInitialized == "Database not initialized"
InitFailed     == "Failed to initialize database"
NoSuchTable    == "no such table"
FkFailed       == "FOREIGN KEY constraint failed"
IoError        == "disk I/O error"
OpenError      == "unable to open database file"
None           == "none"

VARIABLES
    db,        \* GroceryDatabase.db: Null or the handle last opened
    pc,        \* pc[k]: position of the k-th init() call
    execErr,   \* execErr[k]: what execAsync of the k-th init() raised
    conn,      \* the connection behind each handle, Null before it is opened
    fkOn,      \* connections with PRAGMA foreign_keys = ON
    tables,    \* tables that exist in grocery.db
    lists,     \* rows of table lists
    items,     \* rows of table items
    last,      \* the call that settled last: operation, engine error, error delivered
    screen,    \* the screen mounted, or None
    uiLists,   \* screen state `lists`
    selectedList,  \* screen state `selectedList`: <<>> for null, or <<row>>
    uiItems,   \* screen state `items`
    modal,     \* screen state `modalVisible`
    pending    \* the continuations waiting behind an await, in issue order

uiVars == <<screen, uiLists, selectedList, uiItems, modal, pending>>
vars == <<db, pc, execErr, conn, fkOn, tables, lists, items, last,
          screen, uiLists, selectedList, uiItems, modal, pending>>

\* ----------------------------------------------------------------- engine
Max(S) == CHOOSE m \in S : \A x \in S : x <= m

\* INTEGER PRIMARY KEY without AUTOINCREMENT: one more than the largest rowid
NextId(rows) == IF rows = {} THEN 1 ELSE Max({r.id : r \in rows}) + 1

\* rows in rowid order, as SELECT returns them
RECURSIVE InRowidOrder(_)
InRowidOrder(rows) ==
    IF rows = {} THEN <<>>
    ELSE LET r == CHOOSE x \in rows : \A y \in rows : x.id <= y.id
         IN  <<r>> \o InRowidOrder(rows \ {r})

\* the three statements of init's script, a prefix of which has run
SchemaAfter(n, tbls) ==
    tbls \cup (IF n >= 2 THEN {"lists"} ELSE {}) \cup (IF n >= 3 THEN {"items"} ELSE {})

\* PRAGMA foreign_keys = ON is a setting of the connection c it runs on
PragmaAfter(n, c, on) == IF n >= 1 THEN on \cup {c} ELSE on

\* mutant: the script drops and creates the table anew
CreateAfterDrop(rows) == {}

\* CREATE TABLE IF NOT EXISTS keeps the rows of a table that exists
CreateIfNotExists(rows) == rows

\* checked ? 1 : 0
CheckedToInt(checked) == IF checked THEN 1 ELSE 0

\* !item.checked on the INTEGER column
NotChecked(n) == n = 0

\* mutant: the insert names a fixed id and replaces the row that has it
InsertOrReplaceFirst(rows, name) ==
    {r \in rows : r.id # 1} \cup {[id |-> 1, name |-> name]}

\* INSERT INTO lists (name) VALUES (?)
InsertList(rows, name) == rows \cup {[id |-> NextId(rows), name |-> name]}

\* INSERT INTO items (listId, text) VALUES (?, ?), checked DEFAULT 0
InsertItem(rows, listId, text) ==
    rows \cup {[id |-> NextId(rows), listId |-> listId, text |-> text, checked |-> 0]}

\* mutant: the update has no WHERE clause
UpdateEveryRow(rows, id, n) == {[r EXCEPT !.checked = n] : r \in rows}

\* UPDATE items SET checked = ? WHERE id = ?
UpdateChecked(rows, id, n) ==
    {IF r.id = id THEN [r EXCEPT !.checked = n] ELSE r : r \in rows}

\* mutant: the delete matches the listId column
DeleteByListId(rows, id) == {r \in rows : r.listId # id}

\* DELETE FROM items WHERE id = ?
DeleteItemRow(rows, id) == {r \in rows : r.id # id}

\* DELETE FROM lists WHERE id = ?
DeleteListRow(rows, listId) == {r \in rows : r.id # listId}

\* FOREIGN KEY (listId) REFERENCES lists(id) ON DELETE CASCADE: when enforced,
\* the children of the parent row the DELETE removes go with it
Cascade(rows, listId, enforced) ==
    IF enforced /\ listId \in {l.id : l \in lists}
    THEN {r \in rows : r.listId # listId}
    ELSE rows

\* the foreign key check of an insert into items, when enforced
FkViolated(listId, enforced) ==
    enforced /\ listId \notin {l.id : l \in lists}

\* mutant: the select has no WHERE clause
SelectEveryItem(listId) == InRowidOrder(items)

\* SELECT * FROM items WHERE listId = ?
SelectItems(listId) == InRowidOrder({r \in items : r.listId = listId})

\* SELECT id, name FROM lists
SelectLists == InRowidOrder(lists)

\* a statement's failure: the table is missing, the engine fails it, or the
\* foreign key rejects it
EngineErr(table, io, fk) ==
    IF table \notin tables THEN NoSuchTable
    ELSE IF io THEN IoError
    ELSE IF fk THEN FkFailed
    ELSE None

\* -------------------------------------------------------------- data store
\* catch (error) { throw error; }
Rethrow(e) == e

\* catch (error) { throw new Error('Failed to initialize database'); }
InitError(e) == InitFailed

\* if (!this.db) throw new Error('Database not initialized')
Guard(handle) == handle = Null

Rejected(op) == [op |-> op, stmt |-> FALSE, engine |-> None, error |-> NotInitialized]
Settled(op, e) == [op |-> op, stmt |-> TRUE, engine |-> e, error |-> Rethrow(e)]

Enforced == db # Null /\ conn[db] \in fkOn

\* the screens, what is typed into them, and String.prototype.trim
ListScreen  == "app/(tabs)/list.tsx"
ItemsScreen == "unnamed/part_000"
TypedTexts  == {<<" ">>, <<" ", "a", " ">>}   \* what the user types

\* String.prototype.trim over the characters of the model
RECURSIVE TrimLeft(_)
TrimLeft(s) == IF s # <<>> /\ Head(s) = " " THEN TrimLeft(Tail(s)) ELSE s

RECURSIVE TrimRight(_)
TrimRight(s) ==
    IF s # <<>> /\ s[Len(s)] = " " THEN TrimRight(SubSeq(s, 1, Len(s) - 1)) ELSE s

trim(s) == TrimRight(TrimLeft(s))

Init ==
    /\ db = Null
    /\ pc = [k \in Handles |-> "idle"]
    /\ execErr = [k \in Handles |-> None]
    /\ conn = [k \in Handles |-> Null]
    /\ fkOn = {}
    /\ tables = {}
    /\ lists = {}
    /\ items = {}
    /\ last = [op |-> None, stmt |-> FALSE, engine |-> None, error |-> None]
    /\ screen = None
    /\ uiLists = <<>>
    /\ selectedList = <<>>
    /\ uiItems = <<>>
    /\ modal = FALSE
    /\ pending = <<>>

\* the shape of the state: the handle, the tables and the screen's useState values
TypeOK ==
    /\ db \in {Null} \cup Handles
    /\ pc \in [Handles -> {"idle", "opening", "execing", "done", "failed"}]
    /\ execErr \in [Handles -> {None, IoError}]
    /\ conn \in [Handles -> {Null} \cup Handles]
    /\ fkOn \subseteq Handles
    /\ tables \in {{}, {"lists"}, {"lists", "items"}}
    /\ \A r \in lists : r.id \in 1..MaxLists /\ r.name \in Names \cup {trim(t) : t \in TypedTexts}
    /\ \A r \in items : /\ r.id \in 1..MaxItems /\ r.listId \in ListIdArgs
                         /\ r.text \in Texts \cup {trim(t) : t \in TypedTexts}
                         /\ r.checked \in {0, 1}
    /\ \A r \in lists, q \in lists : r.id = q.id => r = q
    /\ \A r \in items, q \in items : r.id = q.id => r = q
    /\ last.error \in {None, NotInitialized, InitFailed, NoSuchTable, FkFailed, IoError}
    /\ screen \in {None, ListScreen, ItemsScreen}
    /\ Len(selectedList) <= 1
    /\ modal \in BOOLEAN
    /\ Len(pending) <= MaxPending
    /\ \A i \in 1..Len(pending) :
          pending[i].k \in {"loadLists", "setLists", "handleSelectList", "setItems"}

\* the handles openDatabaseAsync has handed out
Opened == {k \in Handles : conn[k] # Null}

\* what openDatabaseAsync may hand to handle k: a connection of its own, or
\* one that is already open
Connections(k) == {k} \cup {conn[j] : j \in Opened}

\* init(), up to the call of openDatabaseAsync
initCall(k) ==
    /\ pc[k] = "idle"
    /\ k > 1 => pc[k - 1] # "idle"
    /\ pc' = [pc EXCEPT ![k] = "opening"]

\* openDatabaseAsync rejects: the catch block replaces the error
initOpenFails(k) ==
    /\ pc[k] = "opening"
    /\ pc' = [pc EXCEPT ![k] = "failed"]
    /\ last' = [op |-> "init", stmt |-> FALSE, engine |-> OpenError,
                error |-> InitError(OpenError)]
    /\ UNCHANGED <<db, execErr, conn, fkOn, tables, lists, items>>

\* openDatabaseAsync resolves: this.db is assigned and the script is handed to
\* the engine, which runs n of its three statements
initOpened(k) ==
    /\ pc[k] = "opening"
    /\ db' = k
    /\ \E c \in Connections(k), n \in 0..3 :
          /\ conn' = [conn EXCEPT ![k] = c]
          /\ fkOn' = PragmaAfter(n, c, fkOn)
          /\ tables' = SchemaAfter(n, tables)
          /\ execErr' = [execErr EXCEPT ![k] = IF n = 3 THEN None ELSE IoError]
          /\ lists' = IF n >= 2 THEN CreateIfNotExists(lists) ELSE lists
          /\ items' = IF n >= 3 THEN CreateIfNotExists(items) ELSE items
    /\ pc' = [pc EXCEPT ![k] = "execing"]
    /\ UNCHANGED last

\* execAsync settles, and with it the promise of init()
initReturn(k) ==
    /\ pc[k] = "execing"
    /\ IF execErr[k] = None
         THEN /\ pc' = [pc EXCEPT ![k] = "done"]
              /\ last' = [op |-> "init", stmt |-> TRUE, engine |-> None, error |-> None]
         ELSE /\ pc' = [pc EXCEPT ![k] = "failed"]
              /\ last' = [op |-> "init", stmt |-> TRUE, engine |-> execErr[k],
                          error |-> InitError(execErr[k])]
    /\ UNCHANGED <<db, execErr, conn, fkOn, tables, lists, items>>

addList(name, io) ==
    IF Guard(db)
    THEN /\ last' = Rejected("addList")
         /\ UNCHANGED <<db, pc, execErr, conn, fkOn, tables, lists, items>>
    ELSE LET e == EngineErr("lists", io, FALSE) IN
         /\ e = None => NextId(lists) <= MaxLists
         /\ lists' = IF e = None THEN InsertList(lists, name) ELSE lists
         /\ last' = Settled("addList", e)
         /\ UNCHANGED <<db, pc, execErr, conn, fkOn, tables, items>>

addItem(listId, text, io) ==
    IF Guard(db)
    THEN /\ last' = Rejected("addItem")
         /\ UNCHANGED <<db, pc, execErr, conn, fkOn, tables, lists, items>>
    ELSE LET e == EngineErr("items", io, FkViolated(listId, Enforced)) IN
         /\ e = None => NextId(items) <= MaxItems
         /\ items' = IF e = None THEN InsertItem(items, listId, text) ELSE items
         /\ last' = Settled("addItem", e)
         /\ UNCHANGED <<db, pc, execErr, conn, fkOn, tables, lists>>

updateItem(id, checked, io) ==
    IF Guard(db)
    THEN /\ last' = Rejected("updateItem")
         /\ UNCHANGED <<db, pc, execErr, conn, fkOn, tables, lists, items>>
    ELSE LET e == EngineErr("items", io, FALSE) IN
         /\ items' = IF e = None THEN UpdateChecked(items, id, CheckedToInt(checked))
                      ELSE items
         /\ last' = Settled("updateItem", e)
         /\ UNCHANGED <<db, pc, execErr, conn, fkOn, tables, lists>>

fetchItems(listId, io) ==
    /\ last' = IF Guard(db) THEN Rejected("fetchItems")
               ELSE Settled("fetchItems", EngineErr("items", io, FALSE))
    /\ UNCHANGED <<db, pc, execErr, conn, fkOn, tables, lists, items>>

fetchLists(io) ==
    /\ last' = IF Guard(db) THEN Rejected("fetchLists")
               ELSE Settled("fetchLists", EngineErr("lists", io, FALSE))
    /\ UNCHANGED <<db, pc, execErr, conn, fkOn, tables, lists, items>>

deleteItem(id, io) ==
    IF Guard(db)
    THEN /\ last' = Rejected("deleteItem")
         /\ UNCHANGED <<db, pc, execErr, conn, fkOn, tables, lists, items>>
    ELSE LET e == EngineErr("items", io, FALSE) IN
         /\ items' = IF e = None THEN DeleteItemRow(items, id) ELSE items
         /\ last' = Settled("deleteItem", e)
         /\ UNCHANGED <<db, pc, execErr, conn, fkOn, tables, lists>>

deleteList(listId, io) ==
    IF Guard(db)
    THEN /\ last' = Rejected("deleteList")
         /\ UNCHANGED <<db, pc, execErr, conn, fkOn, tables, lists, items>>
    ELSE LET e == EngineErr("lists", io, FALSE) IN
         /\ lists' = IF e = None THEN DeleteListRow(lists, listId) ELSE lists
         /\ items' = IF e = None THEN Cascade(items, listId, Enforced) ELSE items
         /\ last' = Settled("deleteList", e)
         /\ UNCHANGED <<db, pc, execErr, conn, fkOn, tables>>

\* the data store under an arbitrary caller
InitStep ==
    \E k \in Handles :
        \/ initCall(k) /\ UNCHANGED <<db, execErr, conn, fkOn, tables,
                                       lists, items, last>>
        \/ initOpenFails(k)
        \/ initOpened(k)
        \/ initReturn(k)

Next ==
    \/ InitStep /\ UNCHANGED uiVars
    \/ \E name \in Names, io \in BOOLEAN : addList(name, io) /\ UNCHANGED uiVars
    \/ \E l \in ListIdArgs, t \in Texts, io \in BOOLEAN :
          addItem(l, t, io) /\ UNCHANGED uiVars
    \/ \E i \in ItemIdArgs, c \in BOOLEAN, io \in BOOLEAN :
          updateItem(i, c, io) /\ UNCHANGED uiVars
    \/ \E l \in ListIdArgs, io \in BOOLEAN : fetchItems(l, io) /\ UNCHANGED uiVars
    \/ \E io \in BOOLEAN : fetchLists(io) /\ UNCHANGED uiVars
    \/ \E i \in ItemIdArgs, io \in BOOLEAN : deleteItem(i, io) /\ UNCHANGED uiVars
    \/ \E l \in ListIdArgs, io \in BOOLEAN : deleteList(l, io) /\ UNCHANGED uiVars

Spec == Init /\ [][Next]_vars

\* ----------------------------------------------------------------- screens
\* The code behind an await waits in `pending` until its call has resolved;
\* results arrive in any order, and any handler may start meanwhile.
Rows(seq) == {seq[i] : i \in 1..Len(seq)}

\* the queue without its i-th entry, which resumes
Resume(queue, i) == SubSeq(queue, 1, i - 1) \o SubSeq(queue, i + 1, Len(queue))

Waiting(k, list, rows) == [k |-> k, list |-> list, rows |-> rows]

\* the code behind `await` runs once the call has resolved; a rejected call
\* ends the handler
Await(queue, ok, w) == IF ok THEN Append(queue, w) ELSE queue

\* loadLists(), up to its await: fetchLists is issued (part_000 31-32)
IssueFetchLists(queue, io) ==
    /\ last' = IF Guard(db) THEN Rejected("fetchLists")
               ELSE Settled("fetchLists", EngineErr("lists", io, FALSE))
    /\ pending' = Await(queue, last'.error = None,
                        Waiting("setLists", <<>>, SelectLists))

\* handleSelectList(list), up to its await: fetchItems is issued (part_000 50)
IssueFetchItems(queue, list, io) ==
    /\ last' = IF Guard(db) THEN Rejected("fetchItems")
               ELSE Settled("fetchItems", EngineErr("items", io, FALSE))
    /\ pending' = Await(queue, last'.error = None,
                        Waiting("setItems", <<list>>, SelectItems(list.id)))

\* useEffect(() => { GroceryDatabase.init(); loadLists(); }, []): the screen of
\* part_000 calls loadLists in the same turn, list.tsx only starts init()
mount(s) ==
    /\ screen = None
    /\ screen' = s
    /\ \E k \in Handles : initCall(k)
    /\ IF s = ItemsScreen
         THEN \E io \in BOOLEAN : IssueFetchLists(pending, io)
         ELSE UNCHANGED <<last, pending>>
    /\ UNCHANGED <<db, execErr, conn, fkOn, tables, lists, items,
                   uiLists, selectedList, uiItems, modal>>

\* loadLists(), called behind the await of handleAddList and handleDeleteList
loadLists(i, io) ==
    /\ i \in 1..Len(pending)
    /\ pending[i].k = "loadLists"
    /\ IssueFetchLists(Resume(pending, i), io)
    /\ UNCHANGED <<db, pc, execErr, conn, fkOn, tables, lists, items,
                   screen, uiLists, selectedList, uiItems, modal>>

\* setLists(fetchedLists), behind the await of loadLists
setLists(i) ==
    /\ i \in 1..Len(pending)
    /\ pending[i].k = "setLists"
    /\ uiLists' = pending[i].rows
    /\ pending' = Resume(pending, i)
    /\ UNCHANGED <<db, pc, execErr, conn, fkOn, tables, lists, items, last,
                   screen, selectedList, uiItems, modal>>

handleAddList(newListName, io) ==
    /\ screen # None
    /\ Len(pending) < MaxPending
    /\ trim(newListName) # <<>>
    /\ addList(trim(newListName), io)
    /\ pending' = Await(pending, last'.error = None, Waiting("loadLists", <<>>, <<>>))
    /\ UNCHANGED <<screen, uiLists, selectedList, uiItems, modal>>

handleDeleteList(id, io) ==
    /\ screen # None
    /\ Len(pending) < MaxPending
    /\ id \in {l.id : l \in Rows(uiLists)}
    /\ deleteList(id, io)
    /\ pending' = Await(pending, last'.error = None, Waiting("loadLists", <<>>, <<>>))
    /\ UNCHANGED <<screen, uiLists, selectedList, uiItems, modal>>

\* handleSelectList(item), from a press on a list
handleSelectList(list, io) ==
    /\ screen = ItemsScreen
    /\ Len(pending) < MaxPending
    /\ list \in Rows(uiLists)
    /\ IssueFetchItems(pending, list, io)
    /\ UNCHANGED <<db, pc, execErr, conn, fkOn, tables, lists, items,
                   screen, uiLists, selectedList, uiItems, modal>>

\* handleSelectList(selectedList), called behind the await of the item
\* handlers with the selectedList of the render that made the handler
refreshItems(i, io) ==
    /\ i \in 1..Len(pending)
    /\ pending[i].k = "handleSelectList"
    /\ IssueFetchItems(Resume(pending, i), pending[i].list[1], io)
    /\ UNCHANGED <<db, pc, execErr, conn, fkOn, tables, lists, items,
                   screen, uiLists, selectedList, uiItems, modal>>

\* setSelectedList(list); setItems(fetchedItems); setModalVisible(true),
\* behind the await of handleSelectList
setItems(i) ==
    /\ i \in 1..Len(pending)
    /\ pending[i].k = "setItems"
    /\ selectedList' = pending[i].list
    /\ uiItems' = pending[i].rows
    /\ modal' = TRUE
    /\ pending' = Resume(pending, i)
    /\ UNCHANGED <<db, pc, execErr, conn, fkOn, tables, lists, items, last,
                   screen, uiLists>>

handleAddItem(newItemText, io) ==
    /\ screen = ItemsScreen
    /\ Len(pending) < MaxPending
    /\ modal
    /\ selectedList # <<>>
    /\ trim(newItemText) # <<>>
    /\ addItem(selectedList[1].id, trim(newItemText), io)
    /\ pending' = Await(pending, last'.error = None,
                        Waiting("handleSelectList", selectedList, <<>>))
    /\ UNCHANGED <<screen, uiLists, selectedList, uiItems, modal>>

handleDeleteItem(id, io) ==
    /\ screen = ItemsScreen
    /\ Len(pending) < MaxPending
    /\ modal
    /\ selectedList # <<>>
    /\ id \in {i.id : i \in Rows(uiItems)}
    /\ deleteItem(id, io)
    /\ pending' = Await(pending, last'.error = None,
                        Waiting("handleSelectList", selectedList, <<>>))
    /\ UNCHANGED <<screen, uiLists, selectedList, uiItems, modal>>

handleToggleItemChecked(item, io) ==
    /\ screen = ItemsScreen
    /\ Len(pending) < MaxPending
    /\ modal
    /\ selectedList # <<>>
    /\ item \in Rows(uiItems)
    /\ updateItem(item.id, NotChecked(item.checked), io)
    /\ pending' = Await(pending, last'.error = None,
                        Waiting("handleSelectList", selectedList, <<>>))
    /\ UNCHANGED <<screen, uiLists, selectedList, uiItems, modal>>

\* onRequestClose / the Close button of the modal
closeModal ==
    /\ modal
    /\ selectedList # <<>>
    /\ modal' = FALSE
    /\ UNCHANGED <<db, pc, execErr, conn, fkOn, tables, lists, items, last,
                   screen, uiLists, selectedList, uiItems, pending>>

\* the engine settling what init() awaits
InitSettles ==
    \E k \in Handles : initOpenFails(k) \/ initOpened(k) \/ initReturn(k)

ListRows == [id : 1..MaxLists, name : {trim(t) : t \in TypedTexts}]
ItemRows == [id : 1..MaxItems, listId : 1..MaxLists,
             text : {trim(t) : t \in TypedTexts}, checked : {0, 1}]

NextUI ==
    \/ \E s \in {ListScreen, ItemsScreen} : mount(s)
    \/ InitSettles /\ UNCHANGED uiVars
    \/ \E i \in 1..MaxPending, io \in BOOLEAN : loadLists(i, io)
    \/ \E i \in 1..MaxPending : setLists(i)
    \/ \E t \in TypedTexts, io \in BOOLEAN : handleAddList(t, io)
    \/ \E id \in 1..MaxLists, io \in BOOLEAN : handleDeleteList(id, io)
    \/ \E list \in ListRows, io \in BOOLEAN : handleSelectList(list, io)
    \/ \E i \in 1..MaxPending, io \in BOOLEAN : refreshItems(i, io)
    \/ \E i \in 1..MaxPending : setItems(i)
    \/ \E t \in TypedTexts, io \in BOOLEAN : handleAddItem(t, io)
    \/ \E id \in 1..MaxItems, io \in BOOLEAN : handleDeleteItem(id, io)
    \/ \E item \in ItemRows, io \in BOOLEAN : handleToggleItemChecked(item, io)
    \/ closeModal

SpecUI == Init /\ [][NextUI]_vars

\* ------------------------------------------------------------------ claims
CrudOps == {"addList", "addItem", "updateItem", "fetchItems", "fetchLists",
            "deleteItem", "deleteList"}

\* some init() call has completed successfully
Ready == \E k \in Handles : pc[k] = "done"

ListIds == {l.id : l \in lists}

\* a call of one of the seven CRUD operations
CrudCall ==
    \/ \E name \in Names, io \in BOOLEAN : addList(name, io)
    \/ \E l \in ListIdArgs, t \in Texts, io \in BOOLEAN : addItem(l, t, io)
    \/ \E i \in ItemIdArgs, c \in BOOLEAN, io \in BOOLEAN : updateItem(i, c, io)
    \/ \E l \in ListIdArgs, io \in BOOLEAN : fetchItems(l, io)
    \/ \E io \in BOOLEAN : fetchLists(io)
    \/ \E i \in ItemIdArgs, io \in BOOLEAN : deleteItem(i, io)
    \/ \E l \in ListIdArgs, io \in BOOLEAN : deleteList(l, io)

\* C1: a CRUD operation called while no init() has completed successfully
\* fails with 'Database not initialized', hands no statement to the engine and
\* leaves both tables as they were.
C1_NotInitializedUntilInitCompletes ==
    [][(CrudCall /\ ~Ready) =>
          /\ last'.error = NotInitialized
          /\ ~last'.stmt
          /\ UNCHANGED <<tables, lists, items>>]_vars

\* C2: every stored item's listId is the id of a list that exists.
C2_NoOrphanItems == \A i \in items : i.listId \in ListIds

\* C3: a deleteList(l) of an existing list that succeeds once the store is
\* Ready removes the list row and every item of that list in the same step,
\* and leaves every other list and every item of another list unchanged.
C3_DeleteListCascades ==
    [][\A l \in ListIdArgs, io \in BOOLEAN :
          (deleteList(l, io) /\ Ready /\ l \in ListIds /\ last'.error = None) =>
              /\ l \notin {r.id : r \in lists'}
              /\ SelectItems(l)' = <<>>
              /\ lists' = {r \in lists : r.id # l}
              /\ items' = {r \in items : r.listId # l}]_vars

\* C4: once the store is Ready, an addList(name) the engine does not fail makes
\* fetchLists return what it returned before plus exactly one entry, which
\* carries that name and an id no other list has; the lists that existed keep
\* their id and name.
C4_AddListAddsOneFreshEntry ==
    [][\A name \in Names, io \in BOOLEAN :
          (addList(name, io) /\ Ready /\ ~io) =>
              /\ last'.error = None
              /\ Len(SelectLists') = Len(SelectLists) + 1
              /\ lists \subseteq lists'
              /\ \E new \in lists' \ lists :
                    /\ lists' \ lists = {new}
                    /\ new.name = name
                    /\ new.id \notin ListIds
              /\ Cardinality({r.id : r \in lists'}) = Cardinality(lists')]_vars

C4_Witness ==
    /\ last.op = "addList" /\ last.error = None
    /\ Cardinality(lists) = 2
    /\ \E k \in Handles : pc[k] = "done"

\* C5: fetchItems(l) returns the items whose listId is l, each once and no
\* other; an addItem(l, text) that succeeds appends exactly one item to it,
\* with listId l, that text and checked = 0, and changes no other list's
\* items; and only updateItem changes the checked flag of an item.
C5_FetchItemsReturnsAddedItems ==
    [][/\ \A l \in ListIdArgs :
            /\ Rows(SelectItems(l)) = {r \in items : r.listId = l}
            /\ Len(SelectItems(l)) = Cardinality({r \in items : r.listId = l})
       /\ \A l \in ListIdArgs, t \in Texts, io \in BOOLEAN :
            (addItem(l, t, io) /\ last'.error = None) =>
                /\ Len(SelectItems(l)') = Len(SelectItems(l)) + 1
                /\ SubSeq(SelectItems(l)', 1, Len(SelectItems(l))) = SelectItems(l)
                /\ LET new == SelectItems(l)'[Len(SelectItems(l)) + 1]
                   IN  new.listId = l /\ new.text = t /\ new.checked = 0
                /\ \A m \in ListIdArgs \ {l} : SelectItems(m)' = SelectItems(m)
       /\ \A r \in items, q \in items' :
            (r.id = q.id /\ r.checked # q.checked) => last'.op = "updateItem"]_vars

C5_Witness ==
    /\ last.op = "addItem" /\ last.error = None
    /\ \E l \in ListIds : Len(SelectItems(l)) = 2
    /\ \A i \in items : i.checked = 0

\* C6: an updateItem(id, c) the engine does not fail succeeds and sets the
\* checked flag of the item with that id to c, as fetchItems of its list then
\* shows, and changes nothing else; with an id of no item it succeeds and
\* changes no row; a second identical call changes nothing more, and
\* updateItem(id, false) after updateItem(id, true) leaves checked = 0.
C6_UpdateItemSetsOnlyChecked ==
    [][\A id \in ItemIdArgs, c \in BOOLEAN, io \in BOOLEAN :
          (updateItem(id, c, io) /\ ~Guard(db) /\ "items" \in tables /\ ~io) =>
              /\ last'.error = None
              /\ lists' = lists
              /\ Cardinality(items') = Cardinality(items)
              /\ \A r \in items :
                    IF r.id = id
                    THEN \E q \in items' :
                           /\ q.id = id /\ q.listId = r.listId /\ q.text = r.text
                           /\ (q.checked = 1) = c /\ q.checked \in {0, 1}
                           /\ q \in Rows(SelectItems(r.listId)')
                    ELSE r \in items'
              /\ (id \notin {r.id : r \in items}) => items' = items
              /\ UpdateChecked(items', id, CheckedToInt(c)) = items'
              /\ \A q \in UpdateChecked(UpdateChecked(items, id, CheckedToInt(TRUE)),
                                         id, CheckedToInt(FALSE)) :
                    q.id = id => q.checked = 0]_vars

C6_Witness ==
    /\ last.op = "updateItem" /\ last.error = None
    /\ Cardinality(items) = 2
    /\ \E r \in items, q \in items : r.checked = 1 /\ q.checked = 0

\* C7: once the store is Ready, a deleteItem(id) the engine does not fail
\* completes without error, removes the item with that id if there is one,
\* and leaves every list and every other item unchanged.
C7_DeleteItemRemovesOnlyThatItem ==
    [][\A id \in ItemIdArgs, io \in BOOLEAN :
          (deleteItem(id, io) /\ Ready /\ ~io) =>
              /\ last'.error = None
              /\ lists' = lists
              /\ items' = {r \in items : r.id # id}
              /\ (id \notin {r.id : r \in items}) => items' = items]_vars

C7_Witness ==
    /\ last.op = "deleteItem" /\ last.error = None
    /\ Cardinality(items) = 1 /\ lists # {}
    /\ Ready

\* C8: when the engine fails a statement an operation handed to it, init()'s
\* script included, the error delivered to the caller is the engine's own.
C8_EveryOperationDeliversEngineError ==
    (last.stmt /\ last.engine # None) => last.error = last.engine

\* C9: once this.db holds a handle no step clears it, so no later CRUD call is
\* rejected as not initialized; and no step of init(), first or repeated,
\* succeeding or failing, changes a row of lists or items.
C9_ReadyIsStableAndInitKeepsRows ==
    [][/\ db # Null => db' # Null
       /\ (db # Null /\ CrudCall) => last'.error # NotInitialized
       /\ InitStep => UNCHANGED <<lists, items>>]_vars

C9_Witness ==
    /\ pc[1] = "done"
    /\ pc[2] \in {"done", "failed"}
    /\ lists # {} /\ items # {}

\* C10: no CRUD call of a screen is rejected as not initialized.
C10_ScreensCallAfterInit ==
    ~(last.op \in CrudOps /\ last.error = NotInitialized)

====
